---- MODULE Spec2Model ----
(***************************************************************************)
(* A model of src/calc_0.1.py: the command line calculator (calculate),   *)
(* its JSON history file (manage_history) and the session loop (main).    *)
(*                                                                         *)
(* Text.  A Python str is a sequence of units.  A unit is a TLA+ string:  *)
(* either one character, or a run of printable ASCII characters that      *)
(* contains no space-class character, quote or backslash inside user      *)
(* input (constant messages use longer runs, they are never split).       *)
(* Characters TLA+ cannot write are named: NL, TAB, ESC, E_ACUTE.         *)
(***************************************************************************)
EXTENDS Integers, Sequences, FiniteSets, TLC

VARIABLES
    pc,          \* position of main(): which statement runs next
    user_input,  \* main's local user_input (line 150)
    result,      \* main's local result (line 161)
    file,        \* HISTORY_FILE on disk: [exists, text]
    disk,        \* the storage environment: "ok", "unreadable", "readonly", "full"
    clock,       \* wall clock in microseconds, read by datetime.now()
    console,     \* what print() has written, one element per call
    returned,    \* outcome of the last manage_history call: [status, value]
    appended,    \* history variable: the entries whose append returned normally
    before,      \* history variable: the file when the current line was read
    nlines,      \* number of lines read by input() so far
    call,        \* the pending call of manage_history: [content_type, content, ret]
    writers      \* processes inside manage_history on the same file, when
                 \* more than one runs: for each its place and its locals

vars == <<pc, user_input, result, file, disk, clock, console, returned,
          appended, before, nlines, call, writers>>

------------------------------------------------------------------------------
(* Bounds of the model *)

\* lines the input stream delivers before it reaches end of file
MaxLines == 2

------------------------------------------------------------------------------
(* Characters *)

NL == "\n"
TAB == "\t"
ESC == "<U+001B>"
E_ACUTE == "<U+00E9>"
QUOTE == "\""
BACKSLASH == "\\"

UpperCase == <<"A","B","C","D","E","F","G","H","I","J","K","L","M",
               "N","O","P","Q","R","S","T","U","V","W","X","Y","Z">>
LowerCase == <<"a","b","c","d","e","f","g","h","i","j","k","l","m",
               "n","o","p","q","r","s","t","u","v","w","x","y","z">>

\* str.isspace for the characters of the model (str.split, str.strip)
IsSpace(u) == u \in {" ", TAB, NL}

\* one character of str.lower
LowerChar(u) ==
    IF \E i \in 1..26 : UpperCase[i] = u
    THEN LowerCase[CHOOSE i \in 1..26 : UpperCase[i] = u]
    ELSE u

\* str.lower
Lower(s) == [i \in 1..Len(s) |-> LowerChar(s[i])]

\* str.strip: from the first to the last character that is not a space
Strip(s) ==
    LET kept == {i \in 1..Len(s) : ~IsSpace(s[i])}
    IN  IF kept = {} THEN <<>>
        ELSE SubSeq(s, CHOOSE i \in kept : \A j \in kept : i <= j,
                       CHOOSE i \in kept : \A j \in kept : j <= i)

\* str.split() with no argument: the maximal runs of characters that are
\* not spaces, in order
Split(s) ==
    LET starts == {i \in 1..Len(s) : ~IsSpace(s[i]) /\ (i = 1 \/ IsSpace(s[i - 1]))}
        start(k) == CHOOSE i \in starts : Cardinality({j \in starts : j < i}) = k - 1
        end(i) == CHOOSE j \in i..Len(s) :
                      /\ \A m \in i..j : ~IsSpace(s[m])
                      /\ (j = Len(s) \/ IsSpace(s[j + 1]))
    IN  [k \in 1..Cardinality(starts) |-> SubSeq(s, start(k), end(start(k)))]

\* the two halves of a sequence of two or more elements
LeftHalf(s) == SubSeq(s, 1, Len(s) \div 2)
RightHalf(s) == SubSeq(s, Len(s) \div 2 + 1, Len(s))

------------------------------------------------------------------------------
(* Constants of the program *)

\* MAX_FILE_SIZE (line 21) is 50 * 1024 * 1024 in the source.  The model
\* keeps every byte count of the serialization exact and scales the
\* ceiling to 1 KiB, so that a session of a few lines reaches it.
MAX_FILE_SIZE == 1024

BOLD == <<ESC, "[1m">>
UNDERLINE == <<ESC, "[4m">>
END == <<ESC, "[0m">>

------------------------------------------------------------------------------
(* Numbers as text *)

DigitChars == <<"0","1","2","3","4","5","6","7","8","9">>

DigitChar(d) == DigitChars[d + 1]

IsDigit(u) == \E d \in 0..9 : DigitChars[d + 1] = u

DigitVal(u) == CHOOSE d \in 0..9 : DigitChars[d + 1] = u

\* the decimal digits of a natural number, most significant first
RECURSIVE NatDigits(_)
NatDigits(n) == IF n < 10 THEN <<n>> ELSE Append(NatDigits(n \div 10), n % 10)

\* "%0<w>d" % n
RECURSIVE ZeroPad(_, _)
ZeroPad(ds, w) == IF Len(ds) >= w THEN ds ELSE ZeroPad(<<0>> \o ds, w)

DigitText(ds) == [i \in 1..Len(ds) |-> DigitChar(ds[i])]

------------------------------------------------------------------------------
(* datetime.now().isoformat(), line 50.  The clock counts microseconds     *)
(* within the minute 2024-09-15T12:34; isoformat leaves the fraction out   *)
(* when the microsecond field is zero.                                      *)

\* time that passes between two readings of the clock, in microseconds
ClockStep == 250000

\* the clock readings a session may start at
StartTimes == {0, 100000}

isoformat(t) ==
    LET sec == t \div 1000000
        usec == t % 1000000
    IN  <<"2024-09-15T12:34:">> \o DigitText(ZeroPad(NatDigits(sec), 2))
        \o (IF usec = 0 THEN <<>>
            ELSE <<".">> \o DigitText(ZeroPad(NatDigits(usec), 6)))

------------------------------------------------------------------------------
(* json.dumps(history, indent=2, ensure_ascii=...) and json.loads.          *)
(* A JSON text is a sequence of units too: the punctuation "[", "{", ",",   *)
(* ": ", the quote, the line breaks with their indentation, and the         *)
(* escaped characters of the string values.                                 *)

WS0 == "\n"
WS1 == "\n  "
WS2 == "\n    "

\* the escape json.dumps writes for one unit of a string value
JsonEscapeChar(u, ensure_ascii) ==
    CASE u = QUOTE -> "\\\""
      [] u = BACKSLASH -> "\\\\"
      [] u = NL -> "\\n"
      [] u = TAB -> "\\t"
      [] u = ESC -> "\\u001b"
      [] u = E_ACUTE -> IF ensure_ascii THEN "\\u00e9" ELSE E_ACUTE
      [] OTHER -> u

JsonEscape(s, ensure_ascii) == [i \in 1..Len(s) |-> JsonEscapeChar(s[i], ensure_ascii)]

\* what json.loads reads one unit of a string value as
JsonUnescapeChar(u) ==
    CASE u = "\\\"" -> QUOTE
      [] u = "\\\\" -> BACKSLASH
      [] u = "\\n" -> NL
      [] u = "\\t" -> TAB
      [] u = "\\u001b" -> ESC
      [] u = "\\u00e9" -> E_ACUTE
      [] OTHER -> u

JsonMember(key, value, ensure_ascii) ==
    <<WS2, QUOTE, key, QUOTE, ": ", QUOTE>> \o JsonEscape(value, ensure_ascii) \o <<QUOTE>>

JsonEntry(e, ensure_ascii) ==
    <<WS1, "{">>
    \o JsonMember("timestamp", e.timestamp, ensure_ascii) \o <<",">>
    \o JsonMember("content_type", e.content_type, ensure_ascii) \o <<",">>
    \o JsonMember("content", e.content, ensure_ascii)
    \o <<WS1, "}">>

RECURSIVE JsonItems(_, _)
JsonItems(history, ensure_ascii) ==
    IF history = <<>> THEN <<>>
    ELSE JsonEntry(Head(history), ensure_ascii)
         \o (IF Tail(history) = <<>> THEN <<>> ELSE <<",">>)
         \o JsonItems(Tail(history), ensure_ascii)

\* json.dumps(history, indent=2, ensure_ascii=ensure_ascii)
Dumps(history, ensure_ascii) ==
    IF history = <<>> THEN <<"[", "]">>
    ELSE <<"[">> \o JsonItems(history, ensure_ascii) \o <<WS0, "]">>

\* the bytes of one unit in UTF-8
Utf8Len(u) == IF u = E_ACUTE THEN 2 ELSE Len(u)

\* len(text.encode('utf-8'))
RECURSIVE ByteLen(_)
ByteLen(text) ==
    IF text = <<>> THEN 0
    ELSE IF Len(text) = 1 THEN Utf8Len(text[1])
    ELSE ByteLen(LeftHalf(text)) + ByteLen(RightHalf(text))

(* json.loads on the texts the model can hold: an array of entry objects   *)
(* laid out as dumps lays them out, "{}", or anything else (a decode       *)
(* error).  The result is [kind |-> "list", items |-> ...],                *)
(* [kind |-> "dict"] or [kind |-> "error"].                                 *)

JsonError == [kind |-> "error"]

\* a string value starting after its opening quote at text[i]:
\* [ok, value, next], next being the index after the closing quote
ParseString(text, i) ==
    IF \A j \in i..Len(text) : text[j] # QUOTE
    THEN [ok |-> FALSE, value |-> <<>>, next |-> i]
    ELSE LET close == CHOOSE j \in i..Len(text) :
                          text[j] = QUOTE /\ \A k \in i..(j - 1) : text[k] # QUOTE
         IN  [ok |-> TRUE,
              value |-> [k \in 1..(close - i) |-> JsonUnescapeChar(text[i + k - 1])],
              next |-> close + 1]

\* the member "key": "value" at text[i], after the indentation ws
ParseMember(text, i, ws, key) ==
    IF /\ i + 5 <= Len(text)
       /\ SubSeq(text, i, i + 5) = <<ws, QUOTE, key, QUOTE, ": ", QUOTE>>
    THEN ParseString(text, i + 6)
    ELSE [ok |-> FALSE, value |-> <<>>, next |-> i]

Expect(text, i, u) == i <= Len(text) /\ text[i] = u

\* the object at text[i]: [ok, value, next]
ParseEntry(text, i) ==
    LET bad == [ok |-> FALSE, value |-> <<>>, next |-> i]
        ts == ParseMember(text, i + 2, WS2, "timestamp")
        ct == ParseMember(text, ts.next + 1, WS2, "content_type")
        co == ParseMember(text, ct.next + 1, WS2, "content")
    IN  IF ~(Expect(text, i, WS1) /\ Expect(text, i + 1, "{")) THEN bad
        ELSE IF ~(ts.ok /\ Expect(text, ts.next, ",")) THEN bad
        ELSE IF ~(ct.ok /\ Expect(text, ct.next, ",")) THEN bad
        ELSE IF ~(co.ok /\ Expect(text, co.next, WS1) /\ Expect(text, co.next + 1, "}"))
             THEN bad
        ELSE [ok |-> TRUE,
              value |-> [timestamp |-> ts.value, content_type |-> ct.value,
                         content |-> co.value],
              next |-> co.next + 2]

RECURSIVE ParseItems(_, _, _)
ParseItems(text, i, acc) ==
    LET e == ParseEntry(text, i)
    IN  IF ~e.ok THEN JsonError
        ELSE IF Expect(text, e.next, ",")
             THEN ParseItems(text, e.next + 1, Append(acc, e.value))
        ELSE IF Expect(text, e.next, WS0) /\ Expect(text, e.next + 1, "]")
                /\ Len(text) = e.next + 1
             THEN [kind |-> "list", items |-> Append(acc, e.value)]
        ELSE JsonError

Loads(text) ==
    IF text = <<"[", "]">> THEN [kind |-> "list", items |-> <<>>]
    ELSE IF text = <<"{", "}">> THEN [kind |-> "dict"]
    ELSE IF Expect(text, 1, "[") THEN ParseItems(text, 2, <<>>)
    ELSE JsonError

------------------------------------------------------------------------------
(* Natural numbers of any size, as digit sequences, most significant       *)
(* digit first, without leading zeros; zero is <<0>>.  They carry the      *)
(* coefficients of decimal.Decimal.                                         *)

Min(a, b) == IF a < b THEN a ELSE b
Max(a, b) == IF a > b THEN a ELSE b

Zeros(n) == [i \in 1..n |-> 0]

\* the digits without their leading zeros
StripZeros(ds) ==
    IF \A i \in 1..Len(ds) : ds[i] = 0 THEN <<0>>
    ELSE SubSeq(ds, CHOOSE i \in 1..Len(ds) :
                        ds[i] # 0 /\ \A j \in 1..(i - 1) : ds[j] = 0,
                Len(ds))

NatNorm(ds) == IF ds = <<>> THEN <<0>> ELSE StripZeros(ds)

\* ds with leading zeros up to length n
PadTo(ds, n) == Zeros(n - Len(ds)) \o ds

\* a + b.  The carry into place i is 1 when some place to its right
\* produces a carry (digits summing to 10 or more) and every place in
\* between passes it on (digits summing to 9).
NatAdd(a, b) ==
    LET n == Max(Len(a), Len(b))
        x == PadTo(a, n)
        y == PadTo(b, n)
        carry(i) == IF \E j \in (i + 1)..n :
                           /\ x[j] + y[j] >= 10
                           /\ \A k \in (i + 1)..(j - 1) : x[k] + y[k] = 9
                    THEN 1 ELSE 0
    IN  NatNorm([i \in 1..(n + 1) |->
                    IF i = 1 THEN carry(0)
                    ELSE (x[i - 1] + y[i - 1] + carry(i - 1)) % 10])

\* a - b for a >= b.  Place i lends 1 when some place to its right needs
\* to borrow (its digit of a is the smaller) and every place in between
\* has equal digits.
NatSub(a, b) ==
    LET n == Len(a)
        y == PadTo(b, n)
        borrow(i) == IF \E j \in (i + 1)..n :
                            /\ a[j] < y[j]
                            /\ \A k \in (i + 1)..(j - 1) : a[k] = y[k]
                     THEN 1 ELSE 0
    IN  NatNorm([i \in 1..n |-> (a[i] - y[i] - borrow(i) + 10) % 10])

\* the sequence f, computed place by place once (the concatenation has
\* the model checker lay the sequence out instead of recomputing a place
\* at every use)
Tabulated(f) == f \o <<>>

\* one round of carrying over a row of place values, most significant
\* first: every place keeps its last digit and takes what the place to its
\* right has above its last digit; the row gets one place longer
CarryRound(v) ==
    Tabulated([i \in 1..(Len(v) + 1) |->
                  (IF i = 1 THEN 0 ELSE v[i - 1] % 10)
                  + (IF i <= Len(v) THEN v[i] \div 10 ELSE 0)])

\* a * b, as on paper.  Place p of the product collects the digit products
\* a[i] * b[p + 1 - i]; their sum is counted as the pairs <<i, u>> with
\* u <= a[i] * b[p + 1 - i].  A column is below 81 * 1234 < 10^5, so five
\* rounds of carrying leave at most 10 in every place, and an addition
\* settles the last carries.
NatMul(a, b) ==
    LET n == Len(a)
        m == Len(b)
        column(p) ==
            Cardinality({t \in (Max(1, p + 1 - m)..Min(n, p)) \X (1..81) :
                            t[2] <= a[t[1]] * b[p + 1 - t[1]]})
        columns == Tabulated([p \in 1..(n + m - 1) |-> column(p)])
        v == CarryRound(CarryRound(CarryRound(CarryRound(CarryRound(columns)))))
    IN  NatAdd(NatNorm([i \in 1..Len(v) |-> v[i] % 10]),
               NatNorm([i \in 1..Len(v) |->
                           IF i < Len(v) THEN v[i + 1] \div 10 ELSE 0]))

\* a * d for a digit d: the digit products are at most 81, one round of
\* carrying leaves at most 17 in a place, and an addition settles the rest
NatMulDigit(a, d) ==
    LET v == CarryRound([i \in 1..Len(a) |-> a[i] * d])
    IN  NatAdd(NatNorm([i \in 1..Len(v) |-> v[i] % 10]),
               NatNorm([i \in 1..Len(v) |->
                           IF i < Len(v) THEN v[i + 1] \div 10 ELSE 0]))

\* a * 10^n
NatShift(a, n) == IF a = <<0>> THEN a ELSE a \o Zeros(n)

\* a < b
NatLess(a, b) ==
    \/ Len(a) < Len(b)
    \/ /\ Len(a) = Len(b)
       /\ \E i \in 1..Len(a) :
              /\ a[i] < b[i]
              /\ \A j \in 1..(i - 1) : a[j] = b[j]

\* one step of long division: the remainder r so far and the next digit
\* d of the dividend give a digit of the quotient and the next remainder
DivStep(r, d, b) ==
    LET r1 == NatAdd(NatShift(r, 1), <<d>>)
        k == CHOOSE k \in 0..9 :
                 /\ ~NatLess(r1, NatMulDigit(b, k))
                 /\ (k = 9 \/ NatLess(r1, NatMulDigit(b, k + 1)))
    IN  [q |-> <<k>>, r |-> NatSub(r1, NatMulDigit(b, k))]

\* long division of the digits ds by b, entered with remainder r: the
\* digits of the quotient and the remainder left
RECURSIVE DivDigits(_, _, _)
DivDigits(ds, r, b) ==
    IF Len(ds) = 1 THEN DivStep(r, ds[1], b)
    ELSE LET hi == DivDigits(LeftHalf(ds), r, b)
             lo == DivDigits(RightHalf(ds), hi.r, b)
         IN  [q |-> hi.q \o lo.q, r |-> lo.r]

\* divmod(a, b) for b > 0: [q, r]
NatDivMod(a, b) ==
    LET d == DivDigits(a, <<0>>, b) IN [q |-> NatNorm(d.q), r |-> d.r]

\* int(text) for a short digit sequence
RECURSIVE DigitsToInt(_)
DigitsToInt(ds) ==
    IF ds = <<>> THEN 0 ELSE DigitsToInt(SubSeq(ds, 1, Len(ds) - 1)) * 10 + ds[Len(ds)]

------------------------------------------------------------------------------
(* decimal.Decimal under the default context (line 15: the program never  *)
(* changes it): prec=28, ROUND_HALF_EVEN, Emin=-999999, Emax=999999,       *)
(* traps on InvalidOperation, DivisionByZero and Overflow.                 *)
(* A value is [kind |-> "finite", sign, coef, exp], [kind |-> "inf", sign] *)
(* or [kind |-> "nan", sign, signaling, payload]; an operation may instead *)
(* give [kind |-> "raise", exc], the exception it raises.                  *)

prec == 28
Emax == 999999
Emin == -999999
Etiny == Emin - prec + 1
Etop == Emax - prec + 1

Finite(sign, coef, exp) == [kind |-> "finite", sign |-> sign, coef |-> coef, exp |-> exp]
Infinity(sign) == [kind |-> "inf", sign |-> sign]
Raise(exc) == [kind |-> "raise", exc |-> exc]

\* bool(d) is False: a finite zero
IsZero(d) == d.kind = "finite" /\ d.coef = <<0>>

\* Decimal._round_half_up(p): 1 round up, 0 exact, -1 round down,
\* keeping the first p digits of coef
RoundHalfUp(coef, p) ==
    IF coef[p + 1] >= 5 THEN 1
    ELSE IF \A i \in (p + 1)..Len(coef) : coef[i] = 0 THEN 0
    ELSE -1

\* Decimal._round_half_even(p)
RoundHalfEven(coef, p) ==
    IF /\ coef[p + 1] = 5
       /\ \A i \in (p + 2)..Len(coef) : coef[i] = 0
       /\ (p = 0 \/ coef[p] % 2 = 0)
    THEN -1
    ELSE RoundHalfUp(coef, p)

\* Decimal._fix(context): round to the context's precision and check the
\* exponent range
Fix(d) ==
    IF d.kind # "finite" THEN d
    ELSE IF d.coef = <<0>>
    THEN Finite(d.sign, <<0>>, Min(Max(d.exp, Etiny), Emax))
    ELSE LET len == Len(d.coef)
             exp_min0 == len + d.exp - prec
             subnormal == exp_min0 < Etiny
             exp_min == IF subnormal THEN Etiny ELSE exp_min0
             digits0 == len + d.exp - exp_min
             coef0 == IF digits0 < 0 THEN <<1>> ELSE d.coef
             digits == IF digits0 < 0 THEN 0 ELSE digits0
             changed == RoundHalfEven(coef0, digits)
             kept == IF digits = 0 THEN <<0>> ELSE SubSeq(coef0, 1, digits)
             coeff1 == IF changed > 0 THEN NatAdd(kept, <<1>>) ELSE kept
             carry == Len(coeff1) > prec
             coeff == IF carry THEN SubSeq(coeff1, 1, Len(coeff1) - 1) ELSE coeff1
             exp_min2 == IF carry THEN exp_min + 1 ELSE exp_min
         IN  IF exp_min0 > Etop THEN Raise("Overflow")
             ELSE IF d.exp < exp_min
                  THEN IF exp_min2 > Etop THEN Raise("Overflow")
                       ELSE Finite(d.sign, coeff, exp_min2)
             ELSE d

\* Decimal(text), line 87: the value, or Raise("ConversionSyntax").
\* The constructor drops underscores and ignores case; a number is
\* [sign] digits [. digits] [e [sign] digits] with at least one digit,
\* or [sign] inf | infinity | [s]nan [digits].
\* the digits s starts with
DigitPrefixLen(s) ==
    CHOOSE n \in 0..Len(s) :
        /\ \A i \in 1..n : IsDigit(s[i])
        /\ (n = Len(s) \/ ~IsDigit(s[n + 1]))

TakeDigits(s) == [i \in 1..DigitPrefixLen(s) |-> DigitVal(s[i])]

Drop(s, n) == SubSeq(s, n + 1, Len(s))

StartsWith(s, p) == Len(s) >= Len(p) /\ SubSeq(s, 1, Len(p)) = p

\* the exponent part: [ok, value]
ParseExponent(s) ==
    LET signed == s # <<>> /\ Head(s) \in {"+", "-"}
        body == IF signed THEN Tail(s) ELSE s
        ds == TakeDigits(body)
    IN  IF ds = <<>> \/ Len(ds) # Len(body) THEN [ok |-> FALSE, value |-> 0]
        ELSE [ok |-> TRUE,
              value |-> IF signed /\ Head(s) = "-" THEN 0 - DigitsToInt(ds)
                        ELSE DigitsToInt(ds)]

ParseNumber(sign, s) ==
    LET intpart == TakeDigits(s)
        r1 == Drop(s, Len(intpart))
        dotted == r1 # <<>> /\ Head(r1) = "."
        fracpart == IF dotted THEN TakeDigits(Tail(r1)) ELSE <<>>
        r2 == IF dotted THEN Drop(r1, 1 + Len(fracpart)) ELSE r1
        ex == IF r2 = <<>> THEN [ok |-> TRUE, value |-> 0]
              ELSE IF Head(r2) = "e" THEN ParseExponent(Tail(r2))
              ELSE [ok |-> FALSE, value |-> 0]
    IN  IF (intpart = <<>> /\ fracpart = <<>>) \/ ~ex.ok THEN Raise("ConversionSyntax")
        ELSE Finite(sign, NatNorm(intpart \o fracpart), ex.value - Len(fracpart))

ParseNaN(sign, signaling, diag) ==
    LET ds == TakeDigits(diag)
    IN  IF Len(ds) # Len(diag) THEN Raise("ConversionSyntax")
        ELSE [kind |-> "nan", sign |-> sign, signaling |-> signaling,
              payload |-> IF NatNorm(ds) = <<0>> THEN <<>> ELSE NatNorm(ds)]

Decimal(text) ==
    LET s0 == Lower(SelectSeq(text, LAMBDA u : u # "_"))
        signed == s0 # <<>> /\ Head(s0) \in {"+", "-"}
        sign == IF signed /\ Head(s0) = "-" THEN 1 ELSE 0
        s == IF signed THEN Tail(s0) ELSE s0
    IN  IF s \in {<<"i","n","f">>, <<"i","n","f","i","n","i","t","y">>} THEN Infinity(sign)
        ELSE IF StartsWith(s, <<"n","a","n">>) THEN ParseNaN(sign, FALSE, Drop(s, 3))
        ELSE IF StartsWith(s, <<"s","n","a","n">>) THEN ParseNaN(sign, TRUE, Drop(s, 4))
        ELSE ParseNumber(sign, s)

\* Decimal._check_nans: what an arithmetic operation does with NaN operands
\* ("none" when neither is a NaN)
CheckNans(a, b) ==
    IF (a.kind = "nan" /\ a.signaling) \/ (b.kind = "nan" /\ b.signaling)
    THEN Raise("InvalidOperation")
    ELSE IF a.kind = "nan" THEN a
    ELSE IF b.kind = "nan" THEN b
    ELSE [kind |-> "none"]

Negate(d) == [d EXCEPT !.sign = 1 - d.sign]

\* decimal._normalize(op1, op2, prec): both operands at one exponent; an
\* operand too small to matter is replaced by 1 at an exponent just below
\* the other's last kept digit
Normalize(a, b) ==
    LET aLarger == ~(a.exp < b.exp)
        tmp == IF aLarger THEN a ELSE b
        other == IF aLarger THEN b ELSE a
        exp == tmp.exp + Min(-1, Len(tmp.coef) - prec - 2)
        other1 == IF Len(other.coef) + other.exp - 1 < exp
                  THEN Finite(other.sign, <<1>>, exp)
                  ELSE other
        tmp1 == Finite(tmp.sign, NatShift(tmp.coef, tmp.exp - other1.exp), other1.exp)
    IN  IF aLarger THEN [op1 |-> tmp1, op2 |-> other1]
        ELSE [op1 |-> other1, op2 |-> tmp1]

\* Decimal.__add__ on finite operands, before rounding: the exact sum,
\* except where Normalize has replaced a negligible operand
AddFinite(a, b) ==
    LET exp == Min(a.exp, b.exp)
        n == Normalize(a, b)
        aBigger == ~NatLess(n.op1.coef, n.op2.coef)
        big == IF aBigger THEN n.op1 ELSE n.op2
        small == IF aBigger THEN n.op2 ELSE n.op1
    IN  IF IsZero(a) /\ IsZero(b) THEN Finite(Min(a.sign, b.sign), <<0>>, exp)
        ELSE IF IsZero(a)
             THEN LET e == Max(exp, b.exp - prec - 1)
                  IN  Finite(b.sign, NatShift(b.coef, b.exp - e), e)
        ELSE IF IsZero(b)
             THEN LET e == Max(exp, a.exp - prec - 1)
                  IN  Finite(a.sign, NatShift(a.coef, a.exp - e), e)
        ELSE IF n.op1.sign # n.op2.sign
             THEN IF n.op1.coef = n.op2.coef THEN Finite(0, <<0>>, exp)
                  ELSE Finite(big.sign, NatSub(big.coef, small.coef), n.op1.exp)
        ELSE Finite(n.op1.sign, NatAdd(n.op1.coef, n.op2.coef), n.op1.exp)

\* num1 + num2, line 90
DecAdd(a, b) ==
    IF CheckNans(a, b).kind # "none" THEN CheckNans(a, b)
    ELSE IF a.kind = "inf"
         THEN IF b.kind = "inf" /\ a.sign # b.sign THEN Raise("InvalidOperation") ELSE a
    ELSE IF b.kind = "inf" THEN b
    ELSE Fix(AddFinite(a, b))

\* num1 - num2, line 92
DecSub(a, b) ==
    IF CheckNans(a, b).kind # "none" THEN CheckNans(a, b)
    ELSE DecAdd(a, Negate(b))

Xor(x, y) == IF x = y THEN 0 ELSE 1

\* Decimal.__mul__ on finite operands, before rounding: the exact product
MulFinite(a, b) ==
    Finite(Xor(a.sign, b.sign),
           IF IsZero(a) \/ IsZero(b) THEN <<0>> ELSE NatMul(a.coef, b.coef),
           a.exp + b.exp)

\* num1 * num2, line 94
DecMul(a, b) ==
    IF CheckNans(a, b).kind # "none" THEN CheckNans(a, b)
    ELSE IF a.kind = "inf"
         THEN IF IsZero(b) THEN Raise("InvalidOperation")
              ELSE Infinity(Xor(a.sign, b.sign))
    ELSE IF b.kind = "inf"
         THEN IF IsZero(a) THEN Raise("InvalidOperation")
              ELSE Infinity(Xor(a.sign, b.sign))
    ELSE Fix(MulFinite(a, b))

\* the number of zeros coeff ends with
TrailingZeros(coeff) ==
    CHOOSE n \in 0..Len(coeff) :
        /\ \A i \in (Len(coeff) - n + 1)..Len(coeff) : coeff[i] = 0
        /\ (n = Len(coeff) \/ coeff[Len(coeff) - n] # 0)

\* lines of __truediv__ for an exact quotient: while exp < ideal_exp and
\* coeff % 10 == 0, drop a zero and raise the exponent
TowardIdeal(sign, coeff, exp, ideal_exp) ==
    LET n == Min(Max(ideal_exp - exp, 0), TrailingZeros(coeff))
    IN  Finite(sign, SubSeq(coeff, 1, Len(coeff) - n), exp + n)

\* Decimal.__truediv__ on finite operands with other nonzero, before
\* rounding: prec + 1 or more digits of the quotient, the last one made
\* odd-looking when the division left a remainder
DivFinite(a, b) ==
    LET sign == Xor(a.sign, b.sign)
        shift == Len(b.coef) - Len(a.coef) + prec + 1
        exp == a.exp - b.exp - shift
        dm == IF shift >= 0 THEN NatDivMod(NatShift(a.coef, shift), b.coef)
              ELSE NatDivMod(a.coef, NatShift(b.coef, 0 - shift))
    IN  IF IsZero(a) THEN Finite(sign, <<0>>, a.exp - b.exp)
        ELSE IF dm.r # <<0>>
             THEN Finite(sign,
                         IF dm.q[Len(dm.q)] % 5 = 0 THEN NatAdd(dm.q, <<1>>) ELSE dm.q,
                         exp)
        ELSE TowardIdeal(sign, dm.q, exp, a.exp - b.exp)

\* num1 / num2, line 98
DecDiv(a, b) ==
    IF CheckNans(a, b).kind # "none" THEN CheckNans(a, b)
    ELSE IF a.kind = "inf"
         THEN IF b.kind = "inf" THEN Raise("InvalidOperation")
              ELSE Infinity(Xor(a.sign, b.sign))
    ELSE IF b.kind = "inf" THEN Finite(Xor(a.sign, b.sign), <<0>>, Etiny)
    ELSE IF IsZero(b)
         THEN IF IsZero(a) THEN Raise("DivisionUndefined") ELSE Raise("DivisionByZero")
    ELSE Fix(DivFinite(a, b))

\* a variant of EqualsZero with a plausible slip: the operand is compared
\* with the one representation Decimal('0') instead of by value, so that
\* 0.0 and -0 do not count as zero
EqualsPlainZero(d) ==
    IF d.kind = "nan" /\ d.signaling THEN Raise("InvalidOperation")
    ELSE [kind |-> "bool", value |-> d = Finite(0, <<0>>, 0)]

\* num2 == 0, line 96: [kind |-> "bool", value], or the exception the
\* comparison raises on a signaling NaN
EqualsZero(d) ==
    IF d.kind = "nan" /\ d.signaling THEN Raise("InvalidOperation")
    ELSE [kind |-> "bool", value |-> IsZero(d)]

\* "%+d" % n
SignedInt(n) ==
    IF n < 0 THEN <<"-">> \o DigitText(NatDigits(0 - n))
    ELSE <<"+">> \o DigitText(NatDigits(n))

\* str(d), line 102: Decimal.__str__, the scientific string
DecStr(d) ==
    LET sign == IF d.sign = 1 THEN <<"-">> ELSE <<>>
    IN  IF d.kind = "inf" THEN sign \o <<"Infinity">>
        ELSE IF d.kind = "nan"
             THEN sign \o <<IF d.signaling THEN "sNaN" ELSE "NaN">> \o DigitText(d.payload)
        ELSE LET len == Len(d.coef)
                 leftdigits == d.exp + len
                 dotplace == IF d.exp <= 0 /\ leftdigits > -6 THEN leftdigits ELSE 1
                 intpart == IF dotplace <= 0 THEN <<0>>
                            ELSE IF dotplace >= len THEN d.coef \o Zeros(dotplace - len)
                            ELSE SubSeq(d.coef, 1, dotplace)
                 fracpart == IF dotplace <= 0 THEN Zeros(0 - dotplace) \o d.coef
                             ELSE IF dotplace >= len THEN <<>>
                             ELSE SubSeq(d.coef, dotplace + 1, len)
             IN  sign \o DigitText(intpart)
                 \o (IF fracpart = <<>> THEN <<>> ELSE <<".">> \o DigitText(fracpart))
                 \o (IF leftdigits = dotplace THEN <<>>
                     ELSE <<"E">> \o SignedInt(leftdigits - dotplace))

------------------------------------------------------------------------------
(* calculate, lines 68-106 *)

\* isinstance(e, ValueError) for the exceptions the body can raise: the
\* signals of decimal derive from ArithmeticError
IsValueError(exc) == exc = "ValueError"

\* str(e) of a decimal signal
ExcStr(exc) == "[<class 'decimal." \o exc \o "'>]"

\* lines 103-106: the two except clauses
Except(exc) ==
    IF IsValueError(exc) THEN <<"Error: Invalid number format">>
    ELSE <<"Error: ", ExcStr(exc)>>

EntryError ==
    <<"Entry Error: Please enter the math problem in this format: (number operator number)">>
DivideByZeroError == <<"Error: Cannot divide by zero.">>

\* a variant of UnknownOperatorError with a plausible slip: the string of
\* line 100 lacks its f prefix, so the braces are not filled in
UnformattedOperatorError(operator) == <<"Error: Unknown operator '{operator}'">>

\* line 100
UnknownOperatorError(operator) == <<"Error: Unknown operator '">> \o operator \o <<"'">>

\* lines 89-102, once both operands are Decimals
Apply(num1, operator, num2) ==
    LET zero == EqualsZero(num2)
        value == CASE operator = <<"+">> -> DecAdd(num1, num2)
                   [] operator = <<"-">> -> DecSub(num1, num2)
                   [] operator = <<"*">> -> DecMul(num1, num2)
                   [] operator = <<"/">> -> DecDiv(num1, num2)
    IN  IF operator \notin {<<"+">>, <<"-">>, <<"*">>, <<"/">>}
        THEN UnknownOperatorError(operator)
        ELSE IF operator = <<"/">> /\ zero.kind = "raise" THEN Except(zero.exc)
        ELSE IF operator = <<"/">> /\ zero.value THEN DivideByZeroError
        ELSE IF value.kind = "raise" THEN Except(value.exc)
        ELSE <<"Result: ">> \o DecStr(value)

\* a variant of calculate with a plausible slip: the check of line 83 is
\* missing, so that parts[2] of a shorter list raises IndexError, which
\* line 105 turns into a message
calculate_unchecked(expression) ==
    LET parts == Split(expression)
        num1 == Decimal(parts[1])
        num2 == Decimal(parts[3])
    IN  IF Len(parts) < 3 THEN <<"Error: list index out of range">>
        ELSE IF num1.kind = "raise" THEN Except(num1.exc)
        ELSE IF num2.kind = "raise" THEN Except(num2.exc)
        ELSE Apply(num1, parts[2], num2)

\* a variant of calculate with a plausible slip: line 83 tests
\* len(parts) < 3, so that the unpacking of line 86 raises ValueError (too
\* many values to unpack) on a longer list, which line 103 catches
calculate_lenient(expression) ==
    LET parts == Split(expression)
        num1 == Decimal(parts[1])
        num2 == Decimal(parts[3])
    IN  IF Len(parts) < 3 THEN EntryError
        ELSE IF Len(parts) > 3 THEN Except("ValueError")
        ELSE IF num1.kind = "raise" THEN Except(num1.exc)
        ELSE IF num2.kind = "raise" THEN Except(num2.exc)
        ELSE Apply(num1, parts[2], num2)

\* lines 82-106
calculate(expression) ==
    LET parts == Split(expression)
        num1 == Decimal(parts[1])
        num2 == Decimal(parts[3])
    IN  IF Len(parts) # 3 THEN EntryError
        ELSE IF num1.kind = "raise" THEN Except(num1.exc)
        ELSE IF num2.kind = "raise" THEN Except(num2.exc)
        ELSE Apply(num1, parts[2], num2)

------------------------------------------------------------------------------
(* manage_history, lines 28-66 *)

\* the file as pathlib sees it
AbsentFile == [exists |-> FALSE, text |-> <<>>]
FileOf(text) == [exists |-> TRUE, text |-> text]

\* a variant of new_entry with a plausible slip: the two arguments are
\* stored under each other's key
swapped_entry(content_type, content, now) ==
    [timestamp |-> isoformat(now), content_type |-> content, content |-> content_type]

\* lines 49-53
new_entry(content_type, content, now) ==
    [timestamp |-> isoformat(now), content_type |-> content_type, content |-> content]

\* a variant of LoadHistory with a plausible slip: a file that does not
\* decode is taken for an empty history
LoadOrEmpty(f, d) ==
    IF ~f.exists THEN [kind |-> "list", items |-> <<>>]
    ELSE IF d = "unreadable" THEN [kind |-> "error", exc |-> "PermissionError"]
    ELSE LET loaded == Loads(f.text)
         IN  IF loaded.kind = "error"
             THEN [kind |-> "list", items |-> <<>>]
             ELSE loaded

\* line 46: json.loads(HISTORY_FILE.read_text()) if HISTORY_FILE.exists() else [].
\* The result is the loaded value, or [kind |-> "error", exc |-> ...] when
\* read_text or json.loads raises.
LoadHistory(f, d) ==
    IF ~f.exists THEN [kind |-> "list", items |-> <<>>]
    ELSE IF d = "unreadable" THEN [kind |-> "error", exc |-> "PermissionError"]
    ELSE LET loaded == Loads(f.text)
         IN  IF loaded.kind = "error"
             THEN [kind |-> "error", exc |-> "JSONDecodeError"]
             ELSE loaded

\* a variant of MeasuredSize with a plausible slip: the size measured is
\* that of the store without the entry just appended
StaleSize(history) ==
    ByteLen(Dumps(SubSeq(history, 1, Len(history) - 1), TRUE))

\* line 57: len(json.dumps(history, indent=2).encode('utf-8'));
\* ensure_ascii is left at its default, True
MeasuredSize(history) == ByteLen(Dumps(history, TRUE))

\* a variant of TrimHistory with a plausible slip: history.pop() removes
\* the newest entry instead of the oldest
RECURSIVE TrimNewest(_)
TrimNewest(history) ==
    IF MeasuredSize(history) > MAX_FILE_SIZE /\ history # <<>>
    THEN TrimNewest(SubSeq(history, 1, Len(history) - 1))
    ELSE history

\* a variant of TrimHistory with a plausible slip: the loop runs while
\* len(history) > 1, so that it never removes the entry just appended
RECURSIVE TrimKeepsOne(_)
TrimKeepsOne(history) ==
    IF MeasuredSize(history) > MAX_FILE_SIZE /\ Len(history) > 1
    THEN TrimKeepsOne(Tail(history))
    ELSE history

\* lines 57-58: while the measured size exceeds the ceiling and history is
\* not empty, history.pop(0)
RECURSIVE TrimHistory(_)
TrimHistory(history) ==
    IF MeasuredSize(history) > MAX_FILE_SIZE /\ history # <<>>
    THEN TrimHistory(Tail(history))
    ELSE history

\* line 61: the text handed to write_text
WrittenText(history) == Dumps(history, FALSE)

\* line 61: HISTORY_FILE.write_text(text).  The file afterwards and the
\* exception raised ("none" when the call returns).  write_text opens the
\* file for writing, which truncates it, and then writes: on a read-only
\* file the open fails and nothing changes, on a full disk the file is
\* left truncated with some prefix of the text.
WriteOutcomes(f, d, text) ==
    CASE d = "readonly" -> {[file |-> f, exc |-> "PermissionError"]}
      [] d = "full" -> {[file |-> FileOf(<<>>), exc |-> "OSError"],
                        [file |-> FileOf(SubSeq(text, 1, Len(text) \div 2)),
                         exc |-> "OSError"]}
      [] OTHER -> {[file |-> FileOf(text), exc |-> "none"]}

\* a variant of Caught with a plausible slip: the handler names
\* json.JSONDecodeError only
CaughtDecodeOnly(exc) == exc = "JSONDecodeError"

\* line 64: except Exception catches every exception the body raises
Caught(exc) == TRUE

\* lines 64-66, or the exception leaving manage_history
Failed(exc) ==
    IF Caught(exc)
    THEN /\ console' = Append(console, <<"Error managing history file: ", exc>>)
         /\ returned' = [status |-> "error", value |-> <<>>]
    ELSE /\ console' = console
         /\ returned' = [status |-> "raised", value |-> <<>>]

\* one call of manage_history(content_type, content)
manage_history(content_type, content) ==
    LET loaded == LoadHistory(file, disk)
        entry == new_entry(content_type, content, clock)
    IN  /\ clock' = clock + ClockStep
        /\ IF loaded.kind = "error"
           THEN /\ Failed(loaded.exc)
                /\ UNCHANGED <<file, appended>>
           ELSE IF loaded.kind # "list"
           THEN \* line 54: a dict has no append
                /\ Failed("AttributeError")
                /\ UNCHANGED <<file, appended>>
           ELSE LET history == TrimHistory(Append(loaded.items, entry))
                IN  \E w \in WriteOutcomes(file, disk, WrittenText(history)) :
                        /\ file' = w.file
                        /\ IF w.exc = "none"
                           THEN /\ returned' = [status |-> "ok", value |-> history]
                                /\ appended' = Append(appended, entry)
                                /\ console' = console
                           ELSE /\ Failed(w.exc)
                                /\ appended' = appended

------------------------------------------------------------------------------
(* display_instructions, lines 108-134 *)

instructions ==
    <<NL>> \o BOLD \o <<"===== Calculator Instructions =====">> \o END \o <<NL,
      NL, "Enter your calculation in the format:", NL,
      "    ">> \o UNDERLINE \o <<"number">> \o END \o <<" ">>
        \o UNDERLINE \o <<"operator">> \o END \o <<" ">>
        \o UNDERLINE \o <<"number">> \o END \o <<NL,
      NL, "Supported operators: +, -, *, /", NL,
      NL, "Examples:", NL,
      "    5 + 3", NL,
      "    10.5 - 2.7", NL,
      "    4 * 6", NL,
      "    15 / 3", NL,
      NL, "Type 'quit' to exit the calculator.", NL,
      "Type 'help' to see these instructions again.", NL,
      NL>> \o BOLD \o <<"===================================">> \o END \o <<NL>>

------------------------------------------------------------------------------
(* main, lines 136-163 *)

welcome_message == BOLD \o <<"Welcome to the Unlimited Precision Calculator!">> \o END
goodbye_message == BOLD \o <<"Thank you for using the calculator. Goodbye!">> \o END

quit == <<"q","u","i","t">>
exit == <<"e","x","i","t">>
help == <<"h","e","l","p">>

\* a run of 1024 letters typed as one word
X16 == "xxxxxxxxxxxxxxxx"
X128 == X16 \o X16 \o X16 \o X16 \o X16 \o X16 \o X16 \o X16
X1024 == X128 \o X128 \o X128 \o X128 \o X128 \o X128 \o X128 \o X128

\* the lines the user may type
SessionLines ==
    { <<" ","Q","U","I","T"," ">>,
      exit,
      help,
      <<"5"," ","+"," ","3">>,
      <<"5"," ","+">>,
      <<E_ACUTE, E_ACUTE, E_ACUTE, E_ACUTE, E_ACUTE,
        E_ACUTE, E_ACUTE, E_ACUTE, E_ACUTE, E_ACUTE, " ", "+", " ", "3">>,
      <<"1"," ","/"," ","3">>,
      <<X1024>> }

\* a call of manage_history by main or by display_instructions: the
\* arguments, and the place in main where control continues once it returns
Call(content_type, content, ret) ==
    [content_type |-> content_type, content |-> content, ret |-> ret]

NoCall == Call(<<>>, <<>>, "none")

\* lines 143-145: the welcome message, then the START entry
Start ==
    /\ pc = "start"
    /\ console' = Append(console, welcome_message)
    /\ call' = Call(<<"START">>, <<"Started calculator">>, "display_instructions")
    /\ pc' = "manage_history"
    /\ UNCHANGED <<writers, user_input, result, file, disk, clock, returned, appended,
                   before, nlines>>

\* lines 133-134, called from line 147 and from line 159; either way main
\* goes on to the prompt of line 150
display_instructions ==
    /\ pc = "display_instructions"
    /\ console' = Append(console, instructions)
    /\ call' = Call(<<"INSTRUCTIONS">>, instructions, "input")
    /\ pc' = "manage_history"
    /\ UNCHANGED <<writers, user_input, result, file, disk, clock, returned, appended,
                   before, nlines>>

\* lines 150-151: input() returns a line, which is logged
InputLine ==
    /\ pc = "input"
    /\ nlines < MaxLines
    /\ \E line \in SessionLines : user_input' = Lower(Strip(line))
    /\ nlines' = nlines + 1
    /\ before' = file
    /\ call' = Call(<<"USER_INPUT">>, user_input', "route")
    /\ pc' = "manage_history"
    /\ UNCHANGED <<writers, result, file, disk, clock, console, returned, appended>>

\* line 150: input() raises EOFError at the end of the input stream;
\* nothing in main catches it
InputEof ==
    /\ pc = "input"
    /\ pc' = "crashed"
    /\ UNCHANGED <<writers, user_input, result, file, disk, clock, console, returned,
                   appended, before, nlines, call>>

\* lines 153-157
Quit ==
    /\ pc = "route"
    /\ user_input \in {quit, exit}
    /\ console' = Append(console, goodbye_message)
    /\ call' = Call(<<"END">>, <<"Closed calculator">>, "done")
    /\ pc' = "manage_history"
    /\ UNCHANGED <<writers, user_input, result, file, disk, clock, returned, appended,
                   before, nlines>>

\* a variant of Help with a plausible slip: main prints the instructions
\* itself instead of calling display_instructions, and logs nothing
HelpUnlogged ==
    /\ pc = "route"
    /\ user_input \notin {quit, exit}
    /\ user_input = help
    /\ console' = Append(console, instructions)
    /\ pc' = "input"
    /\ UNCHANGED <<writers, user_input, result, file, disk, clock, returned, appended,
                   before, nlines, call>>

\* lines 158-159
Help ==
    /\ pc = "route"
    /\ user_input \notin {quit, exit}
    /\ user_input = help
    /\ pc' = "display_instructions"
    /\ UNCHANGED <<writers, user_input, result, file, disk, clock, console, returned,
                   appended, before, nlines, call>>

\* a variant of Calculate with a plausible slip: calculate stores its result
\* in the history file itself before it returns
CalculateStoring ==
    /\ pc = "route"
    /\ user_input \notin {quit, exit}
    /\ user_input # help
    /\ result' = calculate(user_input)
    /\ file' = FileOf(WrittenText(<<new_entry(<<"CALCULATION">>, result', clock)>>))
    /\ console' = Append(console, result')
    /\ call' = Call(<<"CALCULATION">>, user_input \o <<" = ">> \o result', "input")
    /\ pc' = "manage_history"
    /\ UNCHANGED <<writers, user_input, disk, clock, returned, appended, before, nlines>>

\* lines 160-163
Calculate ==
    /\ pc = "route"
    /\ user_input \notin {quit, exit}
    /\ user_input # help
    /\ result' = calculate(user_input)
    /\ console' = Append(console, result')
    /\ call' = Call(<<"CALCULATION">>, user_input \o <<" = ">> \o result', "input")
    /\ pc' = "manage_history"
    /\ UNCHANGED <<writers, user_input, file, disk, clock, returned, appended, before, nlines>>

\* lines 28-66: the body of manage_history runs and control returns to the
\* caller; an exception that left manage_history would leave main too
ManageHistory ==
    /\ pc = "manage_history"
    /\ manage_history(call.content_type, call.content)
    /\ pc' = IF returned'.status = "raised" THEN "crashed" ELSE call.ret
    /\ UNCHANGED <<writers, user_input, result, disk, before, nlines, call>>

\* an entry a previous session left in the file
OldEntry ==
    [timestamp |-> <<"2024-09-14T08:00:00.000001">>, content_type |-> <<"END">>,
     content |-> <<"Closed calculator">>]

\* what the history file may hold when the program starts, with the entries
\* it stores: nothing, an empty list, the store of an earlier session, a JSON
\* object, no text
InitialFiles ==
    { [file |-> AbsentFile, store |-> <<>>],
      [file |-> FileOf(Dumps(<<>>, FALSE)), store |-> <<>>],
      [file |-> FileOf(Dumps(<<OldEntry>>, FALSE)), store |-> <<OldEntry>>],
      [file |-> FileOf(<<"{", "}">>), store |-> <<>>],
      [file |-> FileOf(<<>>), store |-> <<>>] }

Disks == {"ok", "unreadable", "readonly", "full"}

Init ==
    /\ pc = "start"
    /\ user_input = <<>>
    /\ result = <<>>
    /\ \E f \in InitialFiles : file = f.file /\ appended = f.store
    /\ disk \in Disks
    /\ clock \in StartTimes
    /\ console = <<>>
    /\ returned = [status |-> "none", value |-> <<>>]
    /\ before = file
    /\ nlines = 0
    /\ call = NoCall
    /\ writers = <<>>

Next ==
    \/ Start
    \/ display_instructions
    \/ InputLine
    \/ InputEof
    \/ Quit
    \/ Help
    \/ Calculate
    \/ ManageHistory

Spec == Init /\ [][Next]_vars

------------------------------------------------------------------------------
(* calculate on its own: one call on an expression drawn from CalcInputs *)

CalcOperands ==
    { <<"5">>, <<"3">>, <<"0">>, <<"0",".","0">>, <<"-","0">>, <<"a">>,
      <<"1",".","2",".","3">>, <<"1","e","2","8">>, <<"1">>,
      <<"1","0",".","5">>, <<"2",".","7">>, <<"4">>, <<"6">>, <<"n","a","n">> }

CalcOperators == { <<"+">>, <<"-">>, <<"*">>, <<"/">>, <<"$">>, <<"*","*">> }

CalcInputs ==
    { a \o <<" ">> \o op \o <<" ">> \o b :
          a \in CalcOperands, op \in CalcOperators, b \in CalcOperands }
    \cup { <<>>, <<" ">>, <<"5"," ","+">>, <<"5","+","3">>, <<"a"," ","$">>,
           <<"5"," ","+"," ","3"," ","4">>, <<"a"," ","$"," ","b"," ","/">> }

CalcInit ==
    /\ pc = "calculate"
    /\ user_input \in CalcInputs
    /\ result = <<>>
    /\ file = AbsentFile
    /\ appended = <<>>
    /\ disk = "ok"
    /\ clock = 0
    /\ console = <<>>
    /\ returned = [status |-> "none", value |-> <<>>]
    /\ before = file
    /\ nlines = 0
    /\ call = NoCall
    /\ writers = <<>>

\* lines 68-106: calculate(expression) returns
Evaluate ==
    /\ pc = "calculate"
    /\ result' = calculate(user_input)
    /\ pc' = "evaluated"
    /\ UNCHANGED <<writers, user_input, file, disk, clock, console, returned, appended,
                   before, nlines, call>>

CalcNext == Evaluate

CalcSpec == CalcInit /\ [][CalcNext]_vars

------------------------------------------------------------------------------
(* Two processes in manage_history on the same HISTORY_FILE.  Nothing in   *)
(* lines 44-66 locks the file, so the steps of the processes interleave    *)
(* at the system calls: the read of line 46, and in write_text of line 61  *)
(* the open, which truncates the file, and the write, which puts the text  *)
(* at offset 0 of whatever the file holds by then.  Texts stay below the   *)
(* buffer size, so that each is written by one system call.                *)

Procs == {1, 2}

\* calls of manage_history the processes make, all in all
MaxAppends == 3

\* the calls made so far
RaceCallsMade == writers[1].n + writers[2].n

\* the calls a process may make
RaceCalls ==
    { Call(<<"START">>, <<"Started calculator">>, "idle"),
      Call(<<"USER_INPUT">>, <<"5", " ", "+", " ", "3">>, "idle") }

\* a process outside manage_history, n calls behind it
Idle(n) == [pc |-> "idle", n |-> n]

\* line 46 for process p: the file is absent or holds a list
Read(p, c) ==
    LET loaded == LoadHistory(file, disk)
    IN  /\ loaded.kind = "list"
        /\ writers' = [writers EXCEPT ![p] =
                           [pc |-> "loaded", n |-> @.n + 1, loaded |-> loaded.items,
                            entry |-> new_entry(c.content_type, c.content, clock)]]
        /\ clock' = clock + ClockStep
        /\ UNCHANGED <<file, console, returned, appended>>

\* line 46 for process p: reading or decoding raises, or line 54 does
\* for want of a list; lines 64-66 end the call
ReadFails(p) ==
    LET loaded == LoadHistory(file, disk)
    IN  /\ loaded.kind # "list"
        /\ Failed(IF loaded.kind = "error" THEN loaded.exc ELSE "AttributeError")
        /\ writers' = [writers EXCEPT ![p] = Idle(@.n + 1)]
        /\ clock' = clock + ClockStep
        /\ UNCHANGED <<file, appended>>

RaceRead(p) ==
    /\ writers[p].pc = "idle"
    /\ RaceCallsMade < MaxAppends
    /\ \/ \E c \in RaceCalls : Read(p, c)
       \/ ReadFails(p)
    /\ UNCHANGED <<pc, user_input, result, disk, before, nlines, call>>

\* a variant of RaceHistory with a plausible slip: the list handed to
\* json.dumps holds the new entry only
RaceEntryOnly(w) == <<w.entry>>

\* lines 54-58 for a process with the locals w: the list it loaded, with
\* its entry appended, trimmed
RaceHistory(w) == TrimHistory(Append(w.loaded, w.entry))

\* line 61, the open of write_text: mode 'w' truncates the file
RaceOpen(p) ==
    /\ writers[p].pc = "loaded"
    /\ file' = FileOf(<<>>)
    /\ writers' = [writers EXCEPT ![p].pc = "opened"]
    /\ UNCHANGED <<pc, user_input, result, disk, clock, console, returned,
                   appended, before, nlines, call>>

\* n bytes of an earlier text; what they are makes no difference to a
\* reader, who finds them after the end of a JSON array
Leftover(n) == [i \in 1..n |-> "?"]

\* a write of text at offset 0 of the file f: the bytes f holds beyond
\* the end of text stay
Overwrite(f, text) ==
    LET more == ByteLen(f.text) - ByteLen(text)
    IN  FileOf(IF more > 0 THEN text \o Leftover(more) ELSE text)

\* line 61, the write of write_text, and lines 63: the call returns
RaceWrite(p) ==
    /\ writers[p].pc = "opened"
    /\ file' = Overwrite(file, WrittenText(RaceHistory(writers[p])))
    /\ returned' = [status |-> "ok", value |-> RaceHistory(writers[p])]
    /\ appended' = Append(appended, writers[p].entry)
    /\ writers' = [writers EXCEPT ![p] = Idle(@.n)]
    /\ UNCHANGED <<pc, user_input, result, disk, clock, console, before,
                   nlines, call>>

RaceInit ==
    /\ pc = "race"
    /\ user_input = <<>>
    /\ result = <<>>
    /\ \E f \in InitialFiles : file = f.file /\ appended = f.store
    /\ disk = "ok"
    /\ clock \in StartTimes
    /\ console = <<>>
    /\ returned = [status |-> "none", value |-> <<>>]
    /\ before = file
    /\ nlines = 0
    /\ call = NoCall
    /\ writers = [p \in Procs |-> Idle(0)]

RaceNext == \E p \in Procs : RaceRead(p) \/ RaceOpen(p) \/ RaceWrite(p)

RaceSpec == RaceInit /\ [][RaceNext]_vars

------------------------------------------------------------------------------
(* Properties of the history store *)

\* what json.loads makes of the file as it is on disk
Persisted == IF file.exists THEN Loads(file.text) ELSE [kind |-> "absent"]

\* s is the last Len(s) elements of t
IsSuffix(s, t) ==
    /\ Len(s) <= Len(t)
    /\ s = SubSeq(t, Len(t) - Len(s) + 1, Len(t))

\* C1: after every call of manage_history that returned normally, the text
\* written to the history file takes at most MAX_FILE_SIZE bytes
C1_WrittenSizeBounded ==
    returned.status = "ok" => (file.exists /\ ByteLen(file.text) <= MAX_FILE_SIZE)

\* C1, the case: an append has evicted entries and left a file whose size
\* is within 128 bytes of the ceiling
C1_Witness ==
    /\ returned.status = "ok"
    /\ Len(returned.value) < Len(appended)
    /\ ByteLen(file.text) > MAX_FILE_SIZE - 128
    /\ ByteLen(file.text) <= MAX_FILE_SIZE

\* C2: the entries the file holds are the newest of all the entries
\* appended so far, in the order of their creation, each with the fields
\* it was created with
C2_StoreIsSuffix ==
    Persisted.kind = "list" => IsSuffix(Persisted.items, appended)

\* C2, the case: entries have been evicted and two or more are retained
C2_Witness ==
    /\ Persisted.kind = "list"
    /\ Len(Persisted.items) >= 2
    /\ Len(Persisted.items) < Len(appended)
    /\ IsSuffix(Persisted.items, appended)

\* C3: the retained entries are the longest run of newest entries that
\* fits: whenever an entry has been evicted, the retained entries together
\* with the newest evicted one, written as line 61 writes them, would take
\* more than MAX_FILE_SIZE bytes
C3_LongestSuffixRetained ==
    (returned.status = "ok" /\ Persisted.kind = "list"
        /\ Len(Persisted.items) < Len(appended))
    => ByteLen(WrittenText(SubSeq(appended,
                                  Len(appended) - Len(Persisted.items),
                                  Len(appended)))) > MAX_FILE_SIZE

\* C10, as stated: a call that finds no file, or a file holding the empty
\* list, and returns normally leaves exactly the new entry in the file
C10_ExactlyOneEntry ==
    [][(pc = "manage_history" /\ returned'.status = "ok"
            /\ (~file.exists \/ Loads(file.text) = [kind |-> "list", items |-> <<>>]))
       => Loads(file'.text) =
              [kind |-> "list",
               items |-> << [timestamp |-> isoformat(clock),
                             content_type |-> call.content_type,
                             content |-> call.content] >>]
      ]_vars

\* C10, as amended: such a call leaves exactly the new entry when the new
\* entry alone, measured as line 57 measures it, is within MAX_FILE_SIZE,
\* and the empty list otherwise
C10_OneEntryIfItFits ==
    [][(pc = "manage_history" /\ returned'.status = "ok"
            /\ (~file.exists \/ Loads(file.text) = [kind |-> "list", items |-> <<>>]))
       => LET entry == [timestamp |-> isoformat(clock),
                        content_type |-> call.content_type,
                        content |-> call.content]
              fits == ByteLen(Dumps(<<entry>>, TRUE)) <= MAX_FILE_SIZE
          IN  /\ file'.exists
              /\ Loads(file'.text) =
                     [kind |-> "list", items |-> IF fits THEN <<entry>> ELSE <<>>]
      ]_vars

\* C10, the case: the first call of the session found no file and has
\* written a file that holds the START entry alone
C10_Witness ==
    /\ returned.status = "ok"
    /\ Len(appended) = 1
    /\ before = AbsentFile
    /\ Persisted.kind = "list"
    /\ Len(Persisted.items) = 1
    /\ Persisted.items[1].content_type = <<"START">>
    /\ Persisted.items[1].content = <<"Started calculator">>

------------------------------------------------------------------------------
(* Properties of the session *)

\* a step in which manage_history ends otherwise than by returning the
\* updated history: reading, decoding or writing the file has failed
AppendFails == pc = "manage_history" /\ returned'.status # "ok"

\* C4, as stated: a storage error in a call of manage_history is caught and
\* reported, and afterwards the loop is running and will take a next line,
\* wherever in the session the call failed
C4_LoopRunsAfterFailure ==
    [][AppendFails =>
          /\ returned'.status = "error"
          /\ pc' \in {"display_instructions", "input", "route"}
      ]_vars

\* C4, as amended: the error is caught and reported, and main goes on
\* exactly where it goes on after a successful call: to the instructions
\* after START, to the prompt after INSTRUCTIONS and CALCULATION, to the
\* routing of the line after USER_INPUT, and to its end after END
C4_CaughtAndReported ==
    [][AppendFails =>
          /\ returned' = [status |-> "error", value |-> <<>>]
          /\ Len(console') = Len(console) + 1
          /\ console'[Len(console')][1] = "Error managing history file: "
          /\ pc' = call.ret
          /\ pc' = CASE call.content_type = <<"START">> -> "display_instructions"
                     [] call.content_type = <<"INSTRUCTIONS">> -> "input"
                     [] call.content_type = <<"USER_INPUT">> -> "route"
                     [] call.content_type = <<"CALCULATION">> -> "input"
                     [] call.content_type = <<"END">> -> "done"
      ]_vars

\* C4, the case: the CALCULATION entry could not be stored, the error was
\* reported, and main is at the prompt again
C4_Witness ==
    /\ returned.status = "error"
    /\ call.content_type = <<"CALCULATION">>
    /\ pc = "input"
    /\ console[Len(console)][1] = "Error managing history file: "

\* C5: main leaves its loop only after a line that reads quit or exit, and
\* then it returns normally
C5_OnlyQuitEndsLoop ==
    pc \in {"done", "crashed"} => (pc = "done" /\ user_input \in {quit, exit})

\* a line that str.split does not cut into exactly three tokens
Malformed(line) == Len(Split(line)) # 3

\* C9, as stated: once a malformed expression has been rejected, the
\* history file is what it was before the line was submitted
C9_NothingMutated ==
    (pc = "manage_history" /\ call.content_type = <<"CALCULATION">>
        /\ Malformed(user_input))
    => file = before

\* C9, as amended: for a malformed line that is not a command, calculate
\* returns the Entry Error message and changes nothing; main prints the
\* message and hands the line with the message to manage_history as a
\* CALCULATION entry, the line itself having been handed over as a
\* USER_INPUT entry when it was read
C9_RejectedAndLogged ==
    [][/\ (pc = "route" /\ user_input \notin {quit, exit, help}
               /\ Malformed(user_input))
          => /\ result' = EntryError
             /\ console' = Append(console, EntryError)
             /\ call' = Call(<<"CALCULATION">>,
                             user_input \o <<" = ">> \o EntryError, "input")
             /\ pc' = "manage_history"
             /\ UNCHANGED <<user_input, file, disk, clock, returned, appended,
                            before, nlines>>
       /\ pc = "input" /\ pc' = "manage_history"
          => call' = Call(<<"USER_INPUT">>, user_input', "route")
      ]_vars

\* C9, the case: the malformed line "5 +" has been rejected, and the file
\* already holds the line
C9_Witness ==
    /\ pc = "manage_history"
    /\ call.content_type = <<"CALCULATION">>
    /\ user_input = <<"5", " ", "+">>
    /\ result = EntryError
    /\ file # before

------------------------------------------------------------------------------
(* Properties of calculate *)

\* the tokens of the expression evaluated
Tokens == Split(user_input)

\* the Decimal that str() has turned into the text after "Result: "
ResultValue == Decimal(Tail(result))

\* the value of a finite Decimal: x and y denote the same number
NumEq(x, y) ==
    LET e == Min(x.exp, y.exp)
        cx == NatShift(x.coef, x.exp - e)
        cy == NatShift(y.coef, y.exp - e)
    IN  cx = cy /\ (cx = <<0>> \/ x.sign = y.sign)

\* the sum of two finite Decimals, no digit dropped
ExactSum(a, b) ==
    LET e == Min(a.exp, b.exp)
        ca == NatShift(a.coef, a.exp - e)
        cb == NatShift(b.coef, b.exp - e)
    IN  IF a.sign = b.sign THEN Finite(a.sign, NatAdd(ca, cb), e)
        ELSE IF NatLess(ca, cb) THEN Finite(b.sign, NatSub(cb, ca), e)
        ELSE Finite(a.sign, NatSub(ca, cb), e)

\* C6: an expression of three tokens whose first or second operand is no
\* decimal yields "Error: Invalid number format"
C6_InvalidNumber ==
    (pc = "evaluated" /\ Len(Tokens) = 3
        /\ (Decimal(Tokens[1]).kind = "raise" \/ Decimal(Tokens[3]).kind = "raise"))
    => result = <<"Error: Invalid number format">>

\* C7: a / b with a and b decimals and b zero yields "Error: Cannot divide
\* by zero."
C7_DivisionByZero ==
    (pc = "evaluated" /\ Len(Tokens) = 3 /\ Tokens[2] = <<"/">>
        /\ Decimal(Tokens[1]).kind # "raise"
        /\ Decimal(Tokens[3]).kind = "finite"
        /\ Decimal(Tokens[3]).coef = <<0>>)
    => result = <<"Error: Cannot divide by zero.">>

\* C7, the case: 5 / 0.0 has been evaluated
C7_Witness ==
    /\ pc = "evaluated"
    /\ user_input = <<"5", " ", "/", " ", "0", ".", "0">>
    /\ result = <<"Error: Cannot divide by zero.">>

\* C8: for finite operands, and a divisor that is not zero, the result is
\* a OP b exactly: the sum, the difference or the product with no digit
\* dropped, or a quotient that multiplied by b gives a
C8_ExactResult ==
    (pc = "evaluated" /\ Len(Tokens) = 3
        /\ Tokens[2] \in {<<"+">>, <<"-">>, <<"*">>, <<"/">>}
        /\ Decimal(Tokens[1]).kind = "finite"
        /\ Decimal(Tokens[3]).kind = "finite"
        /\ ~(Tokens[2] = <<"/">> /\ Decimal(Tokens[3]).coef = <<0>>))
    => LET a == Decimal(Tokens[1])
           b == Decimal(Tokens[3])
       IN  /\ Head(result) = "Result: "
           /\ ResultValue.kind = "finite"
           /\ CASE Tokens[2] = <<"+">> -> NumEq(ResultValue, ExactSum(a, b))
                [] Tokens[2] = <<"-">> -> NumEq(ResultValue, ExactSum(a, Negate(b)))
                [] Tokens[2] = <<"*">> ->
                       NumEq(ResultValue,
                             Finite(Xor(a.sign, b.sign), NatMul(a.coef, b.coef),
                                    a.exp + b.exp))
                [] Tokens[2] = <<"/">> ->
                       NumEq(Finite(Xor(ResultValue.sign, b.sign),
                                    NatMul(ResultValue.coef, b.coef),
                                    ResultValue.exp + b.exp), a)

\* C11: an expression of three tokens whose operands are both decimals and
\* whose operator is none of + - * / yields "Error: Unknown operator '<op>'",
\* <op> being the operator token as it was typed
C11_UnknownOperator ==
    (pc = "evaluated" /\ Len(Tokens) = 3
        /\ Decimal(Tokens[1]).kind # "raise"
        /\ Decimal(Tokens[3]).kind # "raise"
        /\ Tokens[2] \notin {<<"+">>, <<"-">>, <<"*">>, <<"/">>})
    => result = <<"Error: Unknown operator '">> \o Tokens[2] \o <<"'">>

\* C11, the case: 5 ** 0 has been evaluated and the message names **
C11_Witness ==
    /\ pc = "evaluated"
    /\ user_input = <<"5", " ", "*", "*", " ", "0">>
    /\ result = <<"Error: Unknown operator '", "*", "*", "'">>

\* C12: calculate yields the Entry Error message exactly when the
\* expression does not split into three tokens, whatever the tokens are
C12_EntryErrorIffNotThree ==
    pc = "evaluated" => (result = EntryError <=> Len(Tokens) # 3)

\* C12, the case: "a $ b /" has four tokens, none of them a number or an
\* operator the calculator knows, and has been rejected as an entry error
C12_Witness ==
    /\ pc = "evaluated"
    /\ user_input = <<"a", " ", "$", " ", "b", " ", "/">>
    /\ Len(Tokens) = 4
    /\ result = EntryError

------------------------------------------------------------------------------
(* Properties of the logging done by main *)

\* no call of manage_history has reported an error so far
NoStorageError ==
    \A i \in 1..Len(console) : console[i][1] # "Error managing history file: "

IsSessionEntry(e) == e # OldEntry

\* the entries this session has appended, evicted or not
SessionEntries == SelectSeq(appended, IsSessionEntry)

\* the calls of manage_history main has completed at its present place,
\* one for each event so far
EventsSoFar ==
    CASE pc = "start" -> 0
      [] pc = "display_instructions" -> 2 * nlines + 1
      [] pc = "route" -> 2 * nlines + 1
      [] pc \in {"input", "done", "crashed"} -> 2 * nlines + 2
      [] pc = "manage_history" ->
            CASE call.content_type = <<"START">> -> 0
              [] call.content_type = <<"USER_INPUT">> -> 2 * nlines
              [] OTHER -> 2 * nlines + 1

\* C13: as long as no storage error occurs, the entries appended are one
\* for each event, in the order of the events: START, INSTRUCTIONS, then
\* for each line its USER_INPUT followed by END after quit or exit, by
\* INSTRUCTIONS after help and by CALCULATION after anything else; END is
\* the last entry when there is one
C13_OneAppendPerEvent ==
    NoStorageError =>
        LET es == SessionEntries
            n == Len(es)
        IN  /\ n = EventsSoFar
            /\ n >= 1 => es[1].content_type = <<"START">>
            /\ n >= 2 => es[2].content_type = <<"INSTRUCTIONS">>
            /\ \A i \in 3..n :
                  es[i].content_type =
                      IF i % 2 = 1 THEN <<"USER_INPUT">>
                      ELSE IF es[i - 1].content \in {quit, exit} THEN <<"END">>
                      ELSE IF es[i - 1].content = help THEN <<"INSTRUCTIONS">>
                      ELSE <<"CALCULATION">>
            /\ \A i \in 1..n : es[i].content_type = <<"END">> => i = n
            /\ pc = "done" => es[n].content_type = <<"END">>

\* C13, the case: a session of the lines "5 + 3" and quit has ended, and
\* its six events have been appended in their order
C13_Witness ==
    /\ pc = "done"
    /\ NoStorageError
    /\ [i \in 1..Len(SessionEntries) |-> SessionEntries[i].content_type]
           = << <<"START">>, <<"INSTRUCTIONS">>, <<"USER_INPUT">>,
                <<"CALCULATION">>, <<"USER_INPUT">>, <<"END">> >>
    /\ SessionEntries[3].content = <<"5", " ", "+", " ", "3">>
    /\ SessionEntries[5].content = quit

------------------------------------------------------------------------------
(* Properties of two processes on one history file *)

\* e is an element of the sequence s
InSeq(e, s) == \E i \in 1..Len(s) : s[i] = e

\* C15: manage_history is no atomic read-modify-write.  When a process
\* completes its write, its call returns normally and, unless the file is
\* left undecodable or entries had to be evicted, the file holds what the
\* process read at line 46 and its own entry, nothing else: an entry
\* another process has appended since that read is no longer in the file
C15_WriterKeepsWhatItRead ==
    [][\A p \in Procs :
         (writers[p].pc = "opened" /\ writers'[p].pc = "idle")
         => LET w == writers[p]
                kept == Loads(file'.text)
            IN  /\ returned'.status = "ok"
                /\ appended' = Append(appended, w.entry)
                /\ (kept.kind = "list" /\ MeasuredSize(appended') <= MAX_FILE_SIZE)
                   => /\ kept.items = Append(w.loaded, w.entry)
                      /\ \A j \in 1..Len(appended) :
                            InSeq(appended[j], kept.items)
                                <=> InSeq(appended[j], w.loaded)
      ]_vars

\* C15, the case: both processes have read the file before either wrote,
\* both calls have returned normally, all the entries together are within
\* MAX_FILE_SIZE, and the file holds the entry of one process only
C15_Witness ==
    /\ pc = "race"
    /\ \A p \in Procs : writers[p] = Idle(1)
    /\ returned.status = "ok"
    /\ Len(appended) = 2
    /\ MeasuredSize(appended) <= MAX_FILE_SIZE
    /\ Persisted = [kind |-> "list", items |-> <<appended[2]>>]
    /\ ~InSeq(appended[1], Persisted.items)

------------------------------------------------------------------------------
(* Properties of the eviction loop and of the failures of manage_history *)

\* C16: the loop of lines 57-58 ends having removed oldest entries only,
\* and only while the list measured more than MAX_FILE_SIZE: what is left
\* is empty or within the ceiling.  When the new entry alone measures more
\* than the ceiling, what is left is the empty list, which line 61 writes
\* as "[]", and the call returns normally without reporting an error
C16_TrimEndsEmpty ==
    [][(pc = "manage_history" /\ returned'.status = "ok")
       => LET old == LoadHistory(file, disk).items
              entry == new_entry(call.content_type, call.content, clock)
              all == Append(old, entry)
              left == returned'.value
          IN  /\ IsSuffix(left, all)
              /\ left = <<>> \/ MeasuredSize(left) <= MAX_FILE_SIZE
              /\ Len(left) < Len(all)
                 => MeasuredSize(SubSeq(all, Len(all) - Len(left), Len(all)))
                        > MAX_FILE_SIZE
              /\ MeasuredSize(<<entry>>) > MAX_FILE_SIZE
                 => /\ left = <<>>
                    /\ file' = FileOf(<<"[", "]">>)
                    /\ console' = console
      ]_vars

\* C16, the case: the line of 1024 characters has been appended as a
\* USER_INPUT entry, the loop has removed it with the two entries before
\* it, and the file holds the empty list
C16_Witness ==
    /\ pc = "route"
    /\ call.content_type = <<"USER_INPUT">>
    /\ call.content = <<X1024>>
    /\ returned = [status |-> "ok", value |-> <<>>]
    /\ Len(appended) >= 3
    /\ file = FileOf(<<"[", "]">>)
    /\ NoStorageError

\* the file f is there and cannot be read on the disk d, or what it holds
\* is not the JSON text of a list
Unloadable(f, d) ==
    f.exists /\ (d = "unreadable" \/ Loads(f.text).kind # "list")

ReadFailure == Unloadable(file, disk)

\* the errors manage_history has reported so far
ErrorsReported ==
    Cardinality({i \in 1..Len(console) :
                     console[i][1] = "Error managing history file: "})

\* C17: a call of manage_history that finds the file unreadable or not
\* holding a list writes nothing: the file is afterwards what it was, the
\* entry is not recorded, the error is reported and the call returns the
\* empty list; the next call finds the same failure, as no step of the
\* program outside manage_history touches the file
C17_ReadFailureWritesNothing ==
    [][/\ (pc = "manage_history" /\ ReadFailure)
          => /\ file' = file
             /\ appended' = appended
             /\ returned' = [status |-> "error", value |-> <<>>]
             /\ ErrorsReported' = ErrorsReported + 1
             /\ Unloadable(file', disk')
       /\ pc # "manage_history" => UNCHANGED <<file, disk>>
      ]_vars

\* C17, the case: the file held a JSON object when the session started,
\* two lines have been read, each of the six calls has reported an error,
\* and the file still holds the object
C17_Witness ==
    /\ pc = "input"
    /\ nlines = 2
    /\ disk = "ok"
    /\ file = FileOf(<<"{", "}">>)
    /\ ReadFailure
    /\ returned = [status |-> "error", value |-> <<>>]
    /\ ErrorsReported = 6
    /\ appended = <<>>

====
